---------------------------- MODULE Spec2Model ----------------------------
(***************************************************************************)
(* Model of src/main.py: the Streamlit dashboard script of the polar-plant *)
(* EC study.  One rerun of the script is a render: the load block (two     *)
(* memoised loaders), then the three tabs.  Text is a sequence of Unicode  *)
(* code points, a Python dict is a sequence of <<key, value>> entries in   *)
(* insertion order, a DataFrame is a set of column names and a sequence of *)
(* rows.                                                                   *)
(***************************************************************************)
EXTENDS Integers, Sequences, FiniteSets, TLC

(***************************************************************************)
(* Unicode: unicodedata.normalize("NFC", text) on Hangul and ASCII text.   *)
(* The arithmetic is the Hangul composition of the Unicode standard        *)
(* (section 3.12), which is what NFC does to conjoining jamo.              *)
(***************************************************************************)
SBase == 44032
LBase == 4352
VBase == 4449
TBase == 4519
LCount == 19
VCount == 21
TCount == 28
NCount == VCount * TCount
SCount == LCount * NCount

IsSyllable(c) == c >= SBase /\ c < SBase + SCount
IsL(c) == c >= LBase /\ c < LBase + LCount
IsV(c) == c >= VBase /\ c < VBase + VCount
IsT(c) == c > TBase /\ c < TBase + TCount
IsLV(c) == IsSyllable(c) /\ (c - SBase) % TCount = 0

\* canonical decomposition of one code point
Decompose(c) ==
    IF IsSyllable(c)
    THEN LET s == c - SBase
             l == LBase + (s \div NCount)
             v == VBase + ((s % NCount) \div TCount)
             t == TBase + (s % TCount)
         IN  IF t = TBase THEN <<l, v>> ELSE <<l, v, t>>
    ELSE <<c>>

RECURSIVE NFD(_)
NFD(text) ==
    IF text = <<>> THEN <<>> ELSE Decompose(Head(text)) \o NFD(Tail(text))

\* canonical composition: each code point combines with the last one kept
ComposeStep(out, c) ==
    IF out = <<>> THEN <<c>>
    ELSE LET n == Len(out)
             last == out[n]
         IN  IF IsL(last) /\ IsV(c)
             THEN [out EXCEPT ![n] =
                      SBase + ((last - LBase) * VCount + (c - VBase)) * TCount]
             ELSE IF IsLV(last) /\ IsT(c)
                  THEN [out EXCEPT ![n] = last + (c - TBase)]
                  ELSE Append(out, c)

RECURSIVE ComposeFrom(_, _)
ComposeFrom(out, rest) ==
    IF rest = <<>> THEN out
    ELSE ComposeFrom(ComposeStep(out, Head(rest)), Tail(rest))

\* the text as stored, not normalised
normalize_raw(text) == text

normalize(text) == ComposeFrom(<<>>, NFD(text))


(***************************************************************************)
(* Text constants of the script.                                           *)
(***************************************************************************)
SongdoGo  == <<49569, 46020, 44256>>
HaneulGo  == <<54616, 45720, 44256>>
AraGo     == <<50500, 46972, 44256>>
DongsanGo == <<46041, 49328, 44256>>
ALL       == <<51204, 52404>>
CSV       == <<46, 99, 115, 118>>
XLSX      == <<46, 120, 108, 115, 120>>

\* str.lower() on ASCII letters
lower(text) ==
    [i \in DOMAIN text |->
        IF text[i] >= 65 /\ text[i] <= 90 THEN text[i] + 32 ELSE text[i]]

(***************************************************************************)
(* Python dict: entries <<key, value>> in insertion order.                 *)
(***************************************************************************)
HasKey(d, k) == \E i \in DOMAIN d : d[i][1] = k
Get(d, k) == d[CHOOSE i \in DOMAIN d : d[i][1] = k][2]
Put(d, k, v) ==
    IF HasKey(d, k)
    THEN [i \in DOMAIN d |-> IF d[i][1] = k THEN <<k, v>> ELSE d[i]]
    ELSE Append(d, <<k, v>>)
Keys(d) == [i \in DOMAIN d |-> d[i][1]]
Values(d) == [i \in DOMAIN d |-> d[i][2]]

school_ec ==
    << <<SongdoGo, 1>>, <<HaneulGo, 2>>, <<AraGo, 4>>, <<DongsanGo, 8>> >>

schools == <<ALL>> \o Keys(school_ec)

(***************************************************************************)
(* DataFrame: [cols, rows]; a row is a function from the columns to the    *)
(* cell values.  A cell that pandas would hold as NaN because the row has  *)
(* no such key is a field missing from the row.                            *)
(***************************************************************************)
RECURSIVE SumCol(_, _)
SumCol(rows, col) ==
    IF rows = <<>> THEN 0
    ELSE (IF col \in DOMAIN Head(rows) THEN Head(rows)[col] ELSE 0)
         + SumCol(Tail(rows), col)

RECURSIVE CountCol(_, _)
CountCol(rows, col) ==
    IF rows = <<>> THEN 0
    ELSE (IF col \in DOMAIN Head(rows) THEN 1 ELSE 0)
         + CountCol(Tail(rows), col)

\* Series.mean(): the sum over the count of the non-NaN cells; n = 0 is NaN
Mean(rows, col) == [sum |-> SumCol(rows, col), n |-> CountCol(rows, col)]
IsNaN(m) == m.n = 0
MeanLess(a, b) == a.sum * b.n < b.sum * a.n

\* pd.concat(frames): the union of the columns, the rows in order
RECURSIVE ConcatRows(_)
ConcatRows(frames) ==
    IF frames = <<>> THEN <<>>
    ELSE Head(frames).rows \o ConcatRows(Tail(frames))

RECURSIVE ConcatCols(_)
ConcatCols(frames) ==
    IF frames = <<>> THEN {}
    ELSE Head(frames).cols \cup ConcatCols(Tail(frames))

concat(frames) == [cols |-> ConcatCols(frames), rows |-> ConcatRows(frames)]

(***************************************************************************)
(* Results of a call: a value, or the exception it raised.                 *)
(***************************************************************************)
Ok(v) == [exc |-> "none", value |-> v]
Raise(e) == [exc |-> e, value |-> <<>>]

(***************************************************************************)
(* The loaders.  A directory entry is [stem, suffix, ok, table, sheets]:   *)
(* ok says whether pandas can parse the file, table is the content of a    *)
(* CSV file, sheets the <<name, table>> list of a workbook.                *)
(***************************************************************************)
ParsableTimes == {"2025-05-01 09:00", "2025-05-01 10:00"}

\* pd.to_datetime(column, errors="coerce")
to_datetime(rows) ==
    [i \in DOMAIN rows |->
        [rows[i] EXCEPT !["time"] =
            IF @ \in ParsableTimes THEN @ ELSE "NaT"]]

RECURSIVE EnvLoop(_, _)
EnvLoop(entries, data) ==
    IF entries = <<>> THEN Ok(data)
    ELSE LET f == Head(entries) IN
         IF lower(f.suffix) = CSV
         THEN IF ~f.ok THEN Raise("ParserError")
              ELSE IF "time" \notin f.table.cols THEN Raise("KeyError")
              ELSE EnvLoop(Tail(entries),
                           Put(data, normalize(f.stem),
                               [f.table EXCEPT !.rows = to_datetime(@)]))
         ELSE EnvLoop(Tail(entries), data)

load_environment_data(dir) ==
    IF ~dir.exists THEN Raise("FileNotFoundError")
    ELSE EnvLoop(dir.entries, <<>>)

RECURSIVE SheetLoop(_, _)
SheetLoop(sheets, data) ==
    IF sheets = <<>> THEN data
    ELSE SheetLoop(Tail(sheets),
                   Put(data, normalize(Head(sheets)[1]), Head(sheets)[2]))

load_growth_data(f) ==
    IF ~f.ok THEN Raise("ValueError")
    ELSE Ok(SheetLoop(f.sheets, <<>>))

\* next(f for f in DATA_DIR.iterdir() if f.suffix.lower() == ".xlsx")
RECURSIVE FirstXlsx(_)
FirstXlsx(entries) ==
    IF entries = <<>> THEN Raise("StopIteration")
    ELSE IF lower(Head(entries).suffix) = XLSX THEN Ok(Head(entries))
    ELSE FirstXlsx(Tail(entries))

find_growth_xlsx(dir) ==
    IF ~dir.exists THEN Raise("FileNotFoundError")
    ELSE FirstXlsx(dir.entries)

\* a Path under DATA_DIR: the name of the entry
PathOf(f) == <<f.stem, f.suffix>>


(***************************************************************************)
(* TAB 1: the overview.                                                    *)
(***************************************************************************)
\* len(growth_data.get(school, []))
PlantCount(growth, school) ==
    IF HasKey(growth, school) THEN Len(Get(growth, school).rows) ELSE 0

meta_rows(growth) ==
    [i \in DOMAIN school_ec |->
        [school    |-> school_ec[i][1],
         ec_target |-> school_ec[i][2],
         count     |-> PlantCount(growth, school_ec[i][1])]]

RECURSIVE SumLen(_)
SumLen(frames) ==
    IF frames = <<>> THEN 0 ELSE Len(Head(frames).rows) + SumLen(Tail(frames))

\* the metric the overview shows as the optimum: a literal of the script
OverviewOptimum == [EC |-> 2, school |-> HaneulGo]

overview_metrics(env, growth) ==
    IF env = <<>> THEN Raise("ValueError")
    ELSE LET all == concat(Values(env)) IN
         IF "temperature" \notin all.cols \/ "humidity" \notin all.cols
         THEN Raise("KeyError")
         ELSE Ok([total_plants |-> SumLen(Values(growth)),
                  avg_temp     |-> Mean(all.rows, "temperature"),
                  avg_hum      |-> Mean(all.rows, "humidity"),
                  optimum      |-> OverviewOptimum])

(***************************************************************************)
(* TAB 2: the environment summary and the drill-down of the selected       *)
(* school.                                                                 *)
(***************************************************************************)
EnvMetricCols == {"temperature", "humidity", "ph", "ec"}

RECURSIVE SummaryLoop(_, _)
SummaryLoop(items, rows) ==
    IF items = <<>> THEN Ok(rows)
    ELSE LET school == Head(items)[1]
             df     == Head(items)[2]
         IN  IF ~(EnvMetricCols \subseteq df.cols) THEN Raise("KeyError")
             ELSE IF ~HasKey(school_ec, school) THEN Raise("KeyError")
             ELSE SummaryLoop(Tail(items),
                    Append(rows,
                      [school      |-> school,
                       temperature |-> Mean(df.rows, "temperature"),
                       humidity    |-> Mean(df.rows, "humidity"),
                       ph          |-> Mean(df.rows, "ph"),
                       ec          |-> Mean(df.rows, "ec"),
                       EC          |-> Get(school_ec, school)]))

env_summary(env) == SummaryLoop(env, <<>>)

\* if selected_school != "전체": df = env_data[selected_school] ...
drill_down(env, selected) ==
    IF selected = ALL THEN Ok(<<>>)
    ELSE IF ~HasKey(env, selected) THEN Raise("KeyError")
    ELSE Ok(<< [school |-> selected,
                df     |-> Get(env, selected),
                hline  |-> Get(school_ec, selected)] >>)

(***************************************************************************)
(* TAB 3: the growth statistics, the optimum and the merged table.         *)
(***************************************************************************)
GrowthMetricCols == {"wet_mass", "leaf_count", "shoot_length"}

RECURSIVE StatsLoop(_, _)
StatsLoop(items, stats) ==
    IF items = <<>> THEN Ok(stats)
    ELSE LET school == Head(items)[1]
             df     == Head(items)[2]
         IN  IF ~HasKey(school_ec, school) THEN Raise("KeyError")
             ELSE IF ~(GrowthMetricCols \subseteq df.cols) THEN Raise("KeyError")
             ELSE StatsLoop(Tail(items),
                    Append(stats,
                      [school     |-> school,
                       EC         |-> Get(school_ec, school),
                       mean_wet   |-> Mean(df.rows, "wet_mass"),
                       mean_leaf  |-> Mean(df.rows, "leaf_count"),
                       mean_shoot |-> Mean(df.rows, "shoot_length"),
                       count      |-> Len(df.rows)]))

growth_stats(growth) == StatsLoop(growth, <<>>)

\* stat_df.loc[stat_df["평균 생중량"].idxmax()]: the first row holding the
\* largest mean that is not NaN
idxmax(stats) ==
    CHOOSE i \in DOMAIN stats :
        /\ ~IsNaN(stats[i].mean_wet)
        /\ \A j \in DOMAIN stats :
              ~IsNaN(stats[j].mean_wet) =>
                 /\ ~MeanLess(stats[i].mean_wet, stats[j].mean_wet)
                 /\ (j < i => MeanLess(stats[j].mean_wet, stats[i].mean_wet))

best_row(stats) ==
    IF stats = <<>> THEN Raise("KeyError")
    ELSE IF \A i \in DOMAIN stats : IsNaN(stats[i].mean_wet)
         THEN Raise("ValueError")
         ELSE Ok(stats[idxmax(stats)])

\* temp = df.copy(); temp["학교"] = school
TagRow(row, school) ==
    [c \in DOMAIN row \cup {"school"} |->
        IF c = "school" THEN school ELSE row[c]]

Tagged(df, school) ==
    [cols |-> df.cols \cup {"school"},
     rows |-> [i \in DOMAIN df.rows |-> TagRow(df.rows[i], school)]]

merged_frames(growth) ==
    [i \in DOMAIN growth |-> Tagged(growth[i][2], growth[i][1])]

\* only the frame of the last group, not the concatenation
merge_growth_last(growth) ==
    Tagged(growth[Len(growth)][2], growth[Len(growth)][1])

merge_growth(growth) == concat(merged_frames(growth))


(***************************************************************************)
(* st.cache_data: a call is served from the cache when its argument is a   *)
(* key of it; a call that returns is stored, a call that raises is not.    *)
(***************************************************************************)
\* a cache that never answers
cache_miss(cache, arg) == FALSE

cache_hit(cache, arg) == HasKey(cache, arg)

memoised(cache, arg, computed) ==
    IF cache_hit(cache, arg)
    THEN [hit |-> TRUE, res |-> Ok(Get(cache, arg)), cache |-> cache]
    ELSE [hit |-> FALSE, res |-> computed,
          cache |-> IF computed.exc = "none"
                    THEN Put(cache, arg, computed.value) ELSE cache]

\* how often a loader's body ran (reads) and returned (loads) for an argument
Count(counts, arg) == IF HasKey(counts, arg) THEN Get(counts, arg) ELSE 0
Bump(counts, arg, by) == Put(counts, arg, Count(counts, arg) + by)

DATA_DIR == <<100, 97, 116, 97>>

(***************************************************************************)
(* Inputs: the files the data directory may hold.                          *)
(***************************************************************************)
MaxFiles  == 2
MaxSheets == 2
MaxReads  == 2

IncheonGo    == <<51064, 52380, 44256>>
EnvSuffix    == <<95, 54872, 44221, 45936, 51060, 53552>>
GrowthBook   == <<49373, 50977, 44208, 44284, 45936, 51060, 53552>>
GrowthBook2  == <<49373, 50977, 44208, 44284, 95, 50>>
README       == <<82, 69, 65, 68, 77, 69>>
UpperCSV     == <<46, 67, 83, 86>>
TXT          == <<46, 116, 120, 116>>

\* 하늘고 with its middle syllable as a syllable and a trailing consonant
HaneulMixed == <<54616, 45712, 4527, 44256>>

EnvCols == {"time"} \cup EnvMetricCols

EnvTable(cols, times, v) ==
    [cols |-> cols,
     rows |-> [i \in DOMAIN times |->
                 [c \in cols |-> IF c = "time" THEN times[i] ELSE v + i]]]

GrowthTable(cols, wets) ==
    [cols |-> cols,
     rows |-> [i \in DOMAIN wets |->
                 [c \in cols |-> IF c = "wet_mass" THEN wets[i]
                                                   ELSE wets[i] + 3]]]

NoTable == [cols |-> {}, rows |-> <<>>]

CsvFile(stem, suffix, ok, table) ==
    [stem |-> stem, suffix |-> suffix, ok |-> ok, table |-> table,
     sheets |-> <<>>]
XlsxFile(stem, ok, sheets) ==
    [stem |-> stem, suffix |-> XLSX, ok |-> ok, table |-> NoTable,
     sheets |-> sheets]

GoodEnv  == EnvTable(EnvCols, <<"2025-05-01 09:00", "2025-05-01 10:00">>, 20)
GoodEnv2 == EnvTable(EnvCols, <<"2025-05-01 09:00">>, 30)

CsvOptions ==
    {CsvFile(stem, CSV, TRUE, GoodEnv) :
        stem \in {SongdoGo, NFD(SongdoGo), HaneulGo, NFD(HaneulGo),
                  HaneulMixed,
                  SongdoGo \o EnvSuffix, NFD(SongdoGo \o EnvSuffix),
                  IncheonGo}}
    \cup
    {CsvFile(HaneulGo, CSV, FALSE, NoTable),
     CsvFile(HaneulGo, CSV, TRUE,
             EnvTable(EnvMetricCols, <<"2025-05-01 09:00">>, 20)),
     CsvFile(HaneulGo, CSV, TRUE,
             EnvTable(EnvCols \ {"ph"}, <<"2025-05-01 09:00">>, 20)),
     CsvFile(HaneulGo, CSV, TRUE, EnvTable(EnvCols, <<"soon">>, 20)),
     CsvFile(AraGo, UpperCSV, TRUE, GoodEnv2),
     CsvFile(README, TXT, TRUE, NoTable)}

GrowthTables ==
    {GrowthTable(GrowthMetricCols, w) : w \in {<<2>>, <<1, 3>>, <<3>>}}

SheetOptions ==
    {<<name, t>> : name \in {SongdoGo, NFD(SongdoGo), HaneulGo, IncheonGo},
                   t \in GrowthTables}
    \cup
    {<<NFD(HaneulGo), t>> :
        t \in {GrowthTable(GrowthMetricCols, <<>>),
               GrowthTable(GrowthMetricCols \ {"wet_mass"}, <<2>>),
               GrowthTable(GrowthMetricCols \ {"leaf_count"}, <<2>>),
               GrowthTable(GrowthMetricCols \cup {"school"}, <<1>>)}}
    \cup
    {<<HaneulMixed, GrowthTable(GrowthMetricCols, <<1, 3>>)>>}

SeqUpTo(S, n) == UNION {[1..k -> S] : k \in 0..n}

StdSheets ==
    << <<SongdoGo, GrowthTable(GrowthMetricCols, <<1, 3>>)>>,
       <<NFD(HaneulGo), GrowthTable(GrowthMetricCols, <<3>>)>> >>
StdBook == XlsxFile(GrowthBook, TRUE, StdSheets)
StdCsvs ==
    << CsvFile(SongdoGo, CSV, TRUE, GoodEnv),
       CsvFile(NFD(HaneulGo), CSV, TRUE, GoodEnv2) >>

Dir(entries) == [exists |-> TRUE, entries |-> entries]
NoDir == [exists |-> FALSE, entries |-> <<>>]

\* the directories of one render: the CSV files vary, or the sheets do, or
\* the directory fails as a whole
RenderDirs ==
    {Dir(csvs \o <<StdBook>>) : csvs \in SeqUpTo(CsvOptions, MaxFiles)}
    \cup
    {Dir(<<XlsxFile(GrowthBook, TRUE, sheets)>> \o StdCsvs) :
        sheets \in SeqUpTo(SheetOptions, MaxSheets)}
    \cup
    {NoDir, Dir(StdCsvs),
     Dir(StdCsvs \o <<XlsxFile(GrowthBook, FALSE, <<>>)>>)}

\* the directories the files move between while the process runs
ChangedSheets ==
    << <<SongdoGo, GrowthTable(GrowthMetricCols, <<3>>)>>,
       <<HaneulGo, GrowthTable(GrowthMetricCols, <<1>>)>> >>
ChangedCsvs ==
    << CsvFile(SongdoGo, CSV, TRUE, GoodEnv2),
       CsvFile(HaneulGo, CSV, TRUE, GoodEnv) >>
BrokenCsvs ==
    << CsvFile(SongdoGo, CSV, TRUE, GoodEnv),
       CsvFile(NFD(HaneulGo), CSV, FALSE, NoTable) >>

Dirs ==
    {Dir(StdCsvs \o <<StdBook>>),
     Dir(ChangedCsvs \o <<XlsxFile(GrowthBook, TRUE, ChangedSheets)>>),
     Dir(StdCsvs \o <<XlsxFile(GrowthBook, FALSE, <<>>)>>),
     Dir(StdCsvs \o <<XlsxFile(GrowthBook2, TRUE, ChangedSheets), StdBook>>),
     Dir(BrokenCsvs \o <<StdBook>>),
     Dir(StdCsvs),
     NoDir}


(***************************************************************************)
(* State.                                                                  *)
(***************************************************************************)
VARIABLES
    dir,              \* the data directory on disk
    cache_env,        \* st.cache_data of load_environment_data
    cache_growth,     \* st.cache_data of load_growth_data
    reads,            \* loader bodies run since the last cache reset, per argument
    loads,            \* loader bodies returned since the last cache reset, per argument
    pc,               \* where the script is in the current rerun
    selected_school,  \* the value of the sidebar selectbox
    env_data,
    growth_data,
    notice,           \* the exception st.error reports, "none" without one
    exc,              \* the exception that ended the script in a tab
    tab,              \* the with-block the script entered last, "none" before the tabs
    meta_df,
    metrics,          \* the four st.metric values of the overview
    summary,
    drill,            \* the drill-down of the selected school
    stat_df,
    best,
    merged_df

cachevars == <<cache_env, cache_growth, reads, loads>>
loadvars == <<env_data, growth_data, notice>>
tab1vars == <<meta_df, metrics>>
tab2vars == <<summary, drill>>
tab3vars == <<stat_df, best, merged_df>>
vars == <<dir, cachevars, pc, selected_school, loadvars, exc, tab,
          tab1vars, tab2vars, tab3vars>>

NoFrame == [cols |-> {}, rows |-> <<>>]

Fresh ==
    /\ env_data = <<>>
    /\ growth_data = <<>>
    /\ notice = "none"
    /\ exc = "none"
    /\ tab = "none"
    /\ meta_df = <<>>
    /\ metrics = <<>>
    /\ summary = <<>>
    /\ drill = <<>>
    /\ stat_df = <<>>
    /\ best = <<>>
    /\ merged_df = NoFrame

InitProcess ==
    /\ cache_env = <<>>
    /\ cache_growth = <<>>
    /\ reads = <<>>
    /\ loads = <<>>
    /\ pc = "idle"
    /\ selected_school = ALL
    /\ Fresh

Init == dir \in Dirs /\ InitProcess

InitRender == dir \in RenderDirs /\ InitProcess

(***************************************************************************)
(* The environment: the files change on disk; the cache is cleared.  The   *)
(* script reads the disk in the load block only, so a change during a run  *)
(* is a change before the next run.                                        *)
(***************************************************************************)
FsChange ==
    /\ pc \in {"idle", "stopped", "raised", "done"}
    /\ \E d \in Dirs \ {dir} : dir' = d
    /\ UNCHANGED <<cachevars, pc, selected_school, loadvars, exc, tab,
                   tab1vars, tab2vars, tab3vars>>

ClearCache ==
    /\ reads # <<>>
    /\ cache_env' = <<>>
    /\ cache_growth' = <<>>
    /\ reads' = <<>>
    /\ loads' = <<>>
    /\ UNCHANGED <<dir, pc, selected_school, loadvars, exc, tab,
                   tab1vars, tab2vars, tab3vars>>

(***************************************************************************)
(* A rerun of the script.  The selectbox keeps a choice only while the     *)
(* last run rendered it.                                                   *)
(***************************************************************************)
Rerun ==
    /\ pc \in {"idle", "stopped", "raised", "done"}
    /\ \A i \in DOMAIN reads : reads[i][2] < MaxReads
    /\ \E choice \in {schools[i] : i \in DOMAIN schools} :
          selected_school' =
              IF pc \in {"raised", "done"} THEN choice ELSE ALL
    /\ pc' = "load"
    /\ env_data' = <<>>
    /\ growth_data' = <<>>
    /\ notice' = "none"
    /\ exc' = "none"
    /\ tab' = "none"
    /\ meta_df' = <<>>
    /\ metrics' = <<>>
    /\ summary' = <<>>
    /\ drill' = <<>>
    /\ stat_df' = <<>>
    /\ best' = <<>>
    /\ merged_df' = NoFrame
    /\ UNCHANGED <<dir, cachevars>>

\* the load block: try: ... except Exception as e: st.error(...); st.stop()
LoadResult ==
    LET e == memoised(cache_env, DATA_DIR, load_environment_data(dir))
        r1 == IF e.hit THEN reads ELSE Bump(reads, DATA_DIR, 1)
        l1 == IF e.hit \/ e.res.exc # "none" THEN loads
              ELSE Bump(loads, DATA_DIR, 1)
        x == find_growth_xlsx(dir)
    IN  IF e.res.exc # "none"
        THEN [exc |-> e.res.exc, env |-> <<>>, growth |-> <<>>,
              cache_env |-> e.cache, cache_growth |-> cache_growth,
              reads |-> r1, loads |-> l1]
        ELSE IF x.exc # "none"
        THEN [exc |-> x.exc, env |-> <<>>, growth |-> <<>>,
              cache_env |-> e.cache, cache_growth |-> cache_growth,
              reads |-> r1, loads |-> l1]
        ELSE LET path == PathOf(x.value)
                 g == memoised(cache_growth, path, load_growth_data(x.value))
                 r2 == IF g.hit THEN r1 ELSE Bump(r1, path, 1)
                 l2 == IF g.hit \/ g.res.exc # "none" THEN l1
                       ELSE Bump(l1, path, 1)
             IN  IF g.res.exc # "none"
                 THEN [exc |-> g.res.exc, env |-> <<>>, growth |-> <<>>,
                       cache_env |-> e.cache, cache_growth |-> g.cache,
                       reads |-> r2, loads |-> l2]
                 ELSE [exc |-> "none", env |-> e.res.value,
                       growth |-> g.res.value,
                       cache_env |-> e.cache, cache_growth |-> g.cache,
                       reads |-> r2, loads |-> l2]

\* the notice without st.stop(): the script goes on to the tabs
after_load_nostop(e) == "tab1"

\* st.error(...); st.stop() ends the run; otherwise the script goes on
after_load(e) == IF e = "none" THEN "tab1" ELSE "stopped"

Load ==
    /\ pc = "load"
    /\ LET r == LoadResult IN
         /\ cache_env' = r.cache_env
         /\ cache_growth' = r.cache_growth
         /\ reads' = r.reads
         /\ loads' = r.loads
         /\ env_data' = r.env
         /\ growth_data' = r.growth
         /\ notice' = r.exc
         /\ pc' = after_load(r.exc)
    /\ UNCHANGED <<dir, selected_school, exc, tab, tab1vars, tab2vars,
                   tab3vars>>

Tab1 ==
    /\ pc = "tab1"
    /\ tab' = "tab1"
    /\ meta_df' = meta_rows(growth_data)
    /\ LET m == overview_metrics(env_data, growth_data) IN
         /\ metrics' = IF m.exc = "none" THEN <<m.value>> ELSE <<>>
         /\ exc' = m.exc
         /\ pc' = IF m.exc = "none" THEN "tab2" ELSE "raised"
    /\ UNCHANGED <<dir, cachevars, selected_school, loadvars,
                   tab2vars, tab3vars>>

Tab2 ==
    /\ pc = "tab2"
    /\ tab' = "tab2"
    /\ LET s == env_summary(env_data)
           d == drill_down(env_data, selected_school)
       IN  IF s.exc # "none"
           THEN /\ exc' = s.exc
                /\ pc' = "raised"
                /\ UNCHANGED tab2vars
           ELSE /\ summary' = s.value
                /\ drill' = d.value
                /\ exc' = d.exc
                /\ pc' = IF d.exc = "none" THEN "tab3" ELSE "raised"
    /\ UNCHANGED <<dir, cachevars, selected_school, loadvars,
                   tab1vars, tab3vars>>

Tab3 ==
    /\ pc = "tab3"
    /\ tab' = "tab3"
    /\ LET s == growth_stats(growth_data)
           b == best_row(s.value)
       IN  IF s.exc # "none"
           THEN /\ exc' = s.exc
                /\ pc' = "raised"
                /\ UNCHANGED tab3vars
           ELSE IF b.exc # "none"
           THEN /\ stat_df' = s.value
                /\ exc' = b.exc
                /\ pc' = "raised"
                /\ UNCHANGED <<best, merged_df>>
           ELSE /\ stat_df' = s.value
                /\ best' = <<b.value>>
                /\ merged_df' = merge_growth(growth_data)
                /\ exc' = "none"
                /\ pc' = "done"
    /\ UNCHANGED <<dir, cachevars, selected_school, loadvars,
                   tab1vars, tab2vars>>

Next ==
    \/ FsChange
    \/ ClearCache
    \/ Rerun
    \/ Load
    \/ Tab1
    \/ Tab2
    \/ Tab3

Spec == Init /\ [][Next]_vars

\* one process over files that do not change
NextRender ==
    \/ Rerun
    \/ Load
    \/ Tab1
    \/ Tab2
    \/ Tab3

SpecRender == InitRender /\ [][NextRender]_vars


(***************************************************************************)
(* Vocabulary of the properties.                                           *)
(***************************************************************************)
Configured == {school_ec[i][1] : i \in DOMAIN school_ec}
ConditionOf(g) == school_ec[CHOOSE i \in DOMAIN school_ec : school_ec[i][1] = g][2]

\* the same visible text: equal canonical decompositions
CanonEq(a, b) == NFD(a) = NFD(b)
IsNFC(text) == ComposeFrom(<<>>, NFD(text)) = text

IsSubstring(a, b) ==
    \E i \in 0..(Len(b) - Len(a)) : SubSeq(b, i + 1, i + Len(a)) = a

IsCsv(f) == lower(f.suffix) = CSV
IsXlsx(f) == lower(f.suffix) = XLSX
CsvIndexes == {i \in DOMAIN dir.entries : IsCsv(dir.entries[i])}
XlsxIndexes == {i \in DOMAIN dir.entries : IsXlsx(dir.entries[i])}
NoXlsx == ~dir.exists \/ XlsxIndexes = {}
LocatedXlsx ==
    dir.entries[CHOOSE i \in XlsxIndexes : \A j \in XlsxIndexes : i <= j]
BadCsv(f) == IsCsv(f) /\ (~f.ok \/ "time" \notin f.table.cols)

Loaded == pc \in {"tab1", "tab2", "tab3", "done", "raised"}
Tab1Shown == tab \in {"tab1", "tab2", "tab3"}
Tab2Passed == tab = "tab3" \/ (tab = "tab2" /\ pc = "tab3")
Tab3Acted == tab = "tab3" /\ pc \in {"done", "raised"}

RowsOf(rows, g) == {i \in DOMAIN rows : rows[i].school = g}

(***************************************************************************)
(* C5.  A CSV stem or sheet name that is a configured GroupKey in another  *)
(* Unicode composition form is found by every lookup keyed by that         *)
(* GroupKey, unless a later file or sheet normalises to the same key: the  *)
(* overview count is the row count of the sheet, the environment summary   *)
(* carries the key's condition and the file's means, the drill-down shows  *)
(* the file's table; and every key that is compared is in NFC.             *)
(***************************************************************************)
LastCsvFor(g, i) ==
    /\ i \in CsvIndexes
    /\ CanonEq(dir.entries[i].stem, g)
    /\ \A j \in CsvIndexes : CanonEq(dir.entries[j].stem, g) => j <= i

LastSheetFor(g, k) ==
    /\ k \in DOMAIN LocatedXlsx.sheets
    /\ CanonEq(LocatedXlsx.sheets[k][1], g)
    /\ \A j \in DOMAIN LocatedXlsx.sheets :
          CanonEq(LocatedXlsx.sheets[j][1], g) => j <= k

\* the table load_environment_data keeps of a CSV file
AsLoaded(f) == [f.table EXCEPT !.rows = to_datetime(@)]

KeysNormalized ==
    /\ \A g \in Configured : IsNFC(g)
    /\ IsNFC(selected_school)
    /\ \A i \in DOMAIN env_data : IsNFC(env_data[i][1])
    /\ \A i \in DOMAIN growth_data : IsNFC(growth_data[i][1])

CsvFound(g, i) ==
    /\ HasKey(env_data, g)
    /\ Get(env_data, g) = AsLoaded(dir.entries[i])
    /\ Tab2Passed =>
          \E r \in RowsOf(summary, g) :
             /\ summary[r].EC = ConditionOf(g)
             /\ summary[r].temperature
                   = Mean(dir.entries[i].table.rows, "temperature")
    /\ (Tab2Passed /\ selected_school = g) =>
          /\ Len(drill) = 1
          /\ drill[1].df = AsLoaded(dir.entries[i])

SheetFound(g, k) ==
    /\ HasKey(growth_data, g)
    /\ Get(growth_data, g) = LocatedXlsx.sheets[k][2]
    /\ Tab1Shown =>
          \E r \in RowsOf(meta_df, g) :
             meta_df[r].count = Len(LocatedXlsx.sheets[k][2].rows)

\* C5 (amended): the last file and the last sheet of each configured key's
\* visible text are found by every lookup keyed by the key; all keys are NFC
C5_NormalizationEquivalence ==
    /\ KeysNormalized
    /\ Loaded =>
         \A g \in Configured :
            /\ \A i \in DOMAIN dir.entries : LastCsvFor(g, i) => CsvFound(g, i)
            /\ \A k \in DOMAIN LocatedXlsx.sheets :
                  LastSheetFor(g, k) => SheetFound(g, k)

C5_Witness ==
    /\ pc = "done"
    /\ selected_school = HaneulGo
    /\ \E i \in DOMAIN dir.entries :
          /\ LastCsvFor(HaneulGo, i)
          /\ dir.entries[i].stem # HaneulGo
    /\ \E k \in DOMAIN LocatedXlsx.sheets :
          /\ LastSheetFor(HaneulGo, k)
          /\ LocatedXlsx.sheets[k][1] # HaneulGo
    /\ Len(drill) = 1
    /\ \E r \in RowsOf(meta_df, HaneulGo) : meta_df[r].count > 0

\* C5 as stated: the table of every such file and sheet is found
C5_EveryFormFound ==
    /\ KeysNormalized
    /\ Loaded =>
         \A g \in Configured :
            /\ \A i \in CsvIndexes :
                  (CanonEq(dir.entries[i].stem, g) /\ dir.entries[i].stem # g)
                     => CsvFound(g, i)
            /\ \A k \in DOMAIN LocatedXlsx.sheets :
                  (CanonEq(LocatedXlsx.sheets[k][1], g)
                     /\ LocatedXlsx.sheets[k][1] # g)
                     => SheetFound(g, k)

(***************************************************************************)
(* C7.  A configured GroupKey with no growth table or no environment       *)
(* table is presented as an explicit absence: its overview row has no      *)
(* count (not the count 0), and selecting it does not raise.               *)
(***************************************************************************)
\* C7: a configured key without a table is shown as absent: no zero count in
\* the overview, no exception in the drill-down
C7_AbsenceShownAsAbsence ==
    \A g \in Configured :
       /\ (Tab1Shown /\ ~HasKey(growth_data, g)) =>
             \A r \in RowsOf(meta_df, g) : "count" \notin DOMAIN meta_df[r]
       /\ (tab = "tab2" /\ pc \in {"tab3", "raised"}
             /\ selected_school = g /\ ~HasKey(env_data, g)) =>
             exc = "none"

(***************************************************************************)
(* C9.  The merged growth table has as many rows as all loaded growth      *)
(* tables together; every merged row keeps its cells and carries the       *)
(* GroupKey of its table in the new column "school".  The merge adds no    *)
(* condition column.                                                       *)
(***************************************************************************)
RECURSIVE RowsBefore(_, _)
RowsBefore(d, i) ==
    IF i <= 1 THEN 0 ELSE RowsBefore(d, i - 1) + Len(d[i - 1][2].rows)

\* C9 (amended): the merged table keeps every row of every growth table and
\* tags it with the GroupKey of its table
C9_MergeKeepsAndTagsRows ==
    pc = "done" =>
       /\ Len(merged_df.rows) = RowsBefore(growth_data, Len(growth_data) + 1)
       /\ "school" \in merged_df.cols
       /\ \A i \in DOMAIN growth_data :
             \A k \in DOMAIN growth_data[i][2].rows :
                LET src == growth_data[i][2].rows[k]
                    row == merged_df.rows[RowsBefore(growth_data, i) + k]
                IN  /\ row.school = growth_data[i][1]
                    /\ DOMAIN row = DOMAIN src \cup {"school"}
                    /\ \A c \in DOMAIN src \ {"school"} : row[c] = src[c]

C9_Witness ==
    /\ pc = "done"
    /\ Len(growth_data) = 2
    /\ Len(merged_df.rows) = 3
    /\ merged_df.rows[1].school # merged_df.rows[3].school

\* C9 as stated: every merged row also carries its group's condition value
C9_MergeTagsCondition ==
    pc = "done" =>
       /\ Len(merged_df.rows) = RowsBefore(growth_data, Len(growth_data) + 1)
       /\ \A k \in DOMAIN merged_df.rows :
             /\ "school" \in DOMAIN merged_df.rows[k]
             /\ "EC" \in DOMAIN merged_df.rows[k]
             /\ merged_df.rows[k]["EC"]
                   = ConditionOf(merged_df.rows[k].school)

(***************************************************************************)
(* C10.  The optimum the overview shows is the optimum the growth tab      *)
(* computes: the first group with the largest mean wet mass.               *)
(***************************************************************************)
\* C10: the overview's optimum is the growth tab's optimum, the first group
\* with the largest mean wet mass
C10_ConsistentOptimum ==
    pc = "done" =>
       /\ metrics[1].optimum.school = best[1].school
       /\ metrics[1].optimum.EC = best[1].EC
       /\ \A i \in DOMAIN stat_df :
             ~IsNaN(stat_df[i].mean_wet) =>
                ~MeanLess(best[1].mean_wet, stat_df[i].mean_wet)


(***************************************************************************)
(* C1.  When one group's growth table lacks one metric column, the growth  *)
(* statistics do not abort: that group's row has no value for that metric  *)
(* (null), and every other group's row is its usual summary.               *)
(***************************************************************************)
MetricField(c) ==
    IF c = "wet_mass" THEN "mean_wet"
    ELSE IF c = "leaf_count" THEN "mean_leaf" ELSE "mean_shoot"

Incomplete(df) == ~(GrowthMetricCols \subseteq df.cols)

SummaryOf(school, df) ==
    [school     |-> school,
     EC         |-> ConditionOf(school),
     mean_wet   |-> Mean(df.rows, "wet_mass"),
     mean_leaf  |-> Mean(df.rows, "leaf_count"),
     mean_shoot |-> Mean(df.rows, "shoot_length"),
     count      |-> Len(df.rows)]

\* C1: with one metric column missing from one group's table, tab 3 does not
\* abort, that group's row has null for the metric, the other rows are unchanged
C1_MissingColumnTolerance ==
    \A i \in DOMAIN growth_data :
       ( /\ Tab3Acted
         /\ \A j \in DOMAIN growth_data : growth_data[j][1] \in Configured
         /\ Cardinality(GrowthMetricCols \ growth_data[i][2].cols) = 1
         /\ \A j \in DOMAIN growth_data \ {i} : ~Incomplete(growth_data[j][2]) )
       =>
       /\ exc = "none"
       /\ pc = "done"
       /\ Len(stat_df) = Len(growth_data)
       /\ \A c \in GrowthMetricCols \ growth_data[i][2].cols :
             MetricField(c) \notin DOMAIN stat_df[i]
       /\ \A j \in DOMAIN growth_data \ {i} :
             stat_df[j] = SummaryOf(growth_data[j][1], growth_data[j][2])

(***************************************************************************)
(* C2.  A loaded table whose key is not configured in school_ec still gets *)
(* its summary row, with no condition value (null), the configured groups  *)
(* keep their rows, and the render does not abort.                         *)
(***************************************************************************)
Unconfigured(d) == {i \in DOMAIN d : d[i][1] \notin Configured}

\* C2: a table whose key is not in school_ec keeps its summary row, with a
\* null condition, next to the configured groups' rows, and the render goes on
C2_UnconfiguredGroupKept ==
    /\ ( /\ Tab3Acted
         /\ Unconfigured(growth_data) # {}
         /\ \A j \in DOMAIN growth_data : ~Incomplete(growth_data[j][2]) )
       =>
       /\ exc = "none"
       /\ pc = "done"
       /\ Len(stat_df) = Len(growth_data)
       /\ \A i \in DOMAIN growth_data :
             /\ stat_df[i].school = growth_data[i][1]
             /\ IF i \in Unconfigured(growth_data)
                THEN "EC" \notin DOMAIN stat_df[i]
                ELSE stat_df[i].EC = ConditionOf(growth_data[i][1])
    /\ ( /\ tab = "tab2" /\ pc \in {"tab3", "raised"}
         /\ Unconfigured(env_data) # {}
         /\ \A j \in DOMAIN env_data : EnvMetricCols \subseteq env_data[j][2].cols
         /\ selected_school = ALL )
       =>
       /\ exc = "none"
       /\ pc = "tab3"
       /\ Len(summary) = Len(env_data)
       /\ \A i \in DOMAIN env_data :
             /\ summary[i].school = env_data[i][1]
             /\ IF i \in Unconfigured(env_data)
                THEN "EC" \notin DOMAIN summary[i]
                ELSE summary[i].EC = ConditionOf(env_data[i][1])

(***************************************************************************)
(* C3.  When exactly one environment CSV cannot be parsed or has no time   *)
(* column, the load still yields the tables of the other CSV files and the *)
(* growth tables, and the render goes on to the tabs.                      *)
(***************************************************************************)
\* C3: one bad environment CSV does not stop the render; the other CSV
\* tables and the growth tables are loaded
C3_LoadFailureIsolated ==
    ( /\ pc \notin {"idle", "load"}
      /\ dir.exists
      /\ Cardinality({i \in CsvIndexes : BadCsv(dir.entries[i])}) = 1
      /\ ~NoXlsx
      /\ LocatedXlsx.ok )
    =>
    /\ pc # "stopped"
    /\ notice = "none"
    /\ \A i \in CsvIndexes :
          ~BadCsv(dir.entries[i]) =>
             HasKey(env_data, normalize(dir.entries[i].stem))
    /\ \A k \in DOMAIN LocatedXlsx.sheets :
          HasKey(growth_data, normalize(LocatedXlsx.sheets[k][1]))

(***************************************************************************)
(* C6.  A CSV file whose name contains a configured GroupKey, such as      *)
(* "<GroupKey>_환경데이터.csv", is loaded as that GroupKey's environment   *)
(* table: the summary attaches the key's condition to it and the           *)
(* drill-down of the key finds it.                                         *)
(***************************************************************************)
\* C6: the CSV file whose name contains a configured GroupKey is that key's
\* environment table in the summary and in the drill-down
C6_EnvFileAssociation ==
    \A g \in Configured :
       \A i \in CsvIndexes :
          ( /\ Loaded
            /\ \A j \in CsvIndexes : j # i =>
                  ~IsSubstring(g, normalize(dir.entries[j].stem))
            /\ IsSubstring(g, normalize(dir.entries[i].stem)) )
          =>
          /\ HasKey(env_data, g)
          /\ Len(Get(env_data, g).rows) = Len(dir.entries[i].table.rows)
          /\ Tab2Passed =>
                \E r \in RowsOf(summary, g) : summary[r].EC = ConditionOf(g)
          /\ (Tab2Passed /\ selected_school = g) => Len(drill) = 1


(***************************************************************************)
(* C4.  A load in which the directory holds no .xlsx file, or in which the *)
(* located spreadsheet has to be opened (its path is not in the loader's   *)
(* cache) and cannot be, shows the load-failure notice and stops: no       *)
(* exception escapes, and no tab runs in that render.                      *)
(***************************************************************************)
LoadStep == pc = "load" /\ pc' # "load"

StoppedClean ==
    pc = "stopped" =>
       /\ notice # "none"
       /\ exc = "none"
       /\ tab = "none"
       /\ meta_df = <<>> /\ metrics = <<>>
       /\ summary = <<>> /\ drill = <<>>
       /\ stat_df = <<>> /\ best = <<>> /\ merged_df = NoFrame

\* C4 (amended): a load without an .xlsx file, or with an uncached spreadsheet
\* that cannot be opened, ends stopped with the notice, and no tab runs
C4_GlobalLoadFailureStops ==
    /\ []StoppedClean
    /\ [][ (LoadStep /\ (NoXlsx \/ (~LocatedXlsx.ok
                                    /\ ~HasKey(cache_growth, PathOf(LocatedXlsx)))))
             => (pc' = "stopped" /\ notice' # "none") ]_vars
    /\ [][ pc = "stopped" => pc' \in {"stopped", "load"} ]_vars

\* a render stopped for want of an .xlsx file, in a process in which an
\* earlier render stopped on a spreadsheet it could not open
C4_Witness ==
    /\ pc = "stopped"
    /\ notice = "StopIteration"
    /\ dir.exists
    /\ XlsxIndexes = {}
    /\ HasKey(cache_env, DATA_DIR)
    /\ Count(reads, <<GrowthBook, XLSX>>) >= 1
    /\ Count(loads, <<GrowthBook, XLSX>>) = 0

\* C4 as stated: whenever the located spreadsheet cannot be opened
C4_UnopenableAlwaysStops ==
    [][ (LoadStep /\ (NoXlsx \/ ~LocatedXlsx.ok))
          => (pc' = "stopped" /\ notice' # "none") ]_vars

(***************************************************************************)
(* C8.  Each loader returns at most once per argument between cache        *)
(* resets; once a load of an argument has returned, every later render     *)
(* with that argument gets the stored corpus without reading again, also   *)
(* after the files have changed.  Only a cache reset empties the cache.    *)
(***************************************************************************)
LoadsOnce ==
    /\ \A i \in DOMAIN loads : loads[i][2] = 1
    /\ HasKey(cache_env, DATA_DIR) <=> Count(loads, DATA_DIR) = 1
    /\ \A i \in DOMAIN cache_growth :
          Count(loads, cache_growth[i][1]) = 1
    /\ \A i \in DOMAIN loads :
          loads[i][1] # DATA_DIR => HasKey(cache_growth, loads[i][1])

CacheReset == reads # <<>> /\ reads' = <<>>

CacheKept ==
    ~CacheReset =>
       /\ \A i \in DOMAIN cache_env :
             /\ HasKey(cache_env', cache_env[i][1])
             /\ Get(cache_env', cache_env[i][1]) = cache_env[i][2]
             /\ Count(reads', cache_env[i][1]) = Count(reads, cache_env[i][1])
       /\ \A i \in DOMAIN cache_growth :
             /\ HasKey(cache_growth', cache_growth[i][1])
             /\ Get(cache_growth', cache_growth[i][1]) = cache_growth[i][2]
             /\ Count(reads', cache_growth[i][1])
                   = Count(reads, cache_growth[i][1])
       /\ (LoadStep /\ pc' = "tab1" /\ HasKey(cache_env, DATA_DIR)) =>
             env_data' = Get(cache_env, DATA_DIR)
       /\ (LoadStep /\ pc' = "tab1"
             /\ HasKey(cache_growth, PathOf(LocatedXlsx))) =>
             growth_data' = Get(cache_growth, PathOf(LocatedXlsx))

\* C8 (amended): a loader returns at most once per argument; a stored corpus
\* is served unchanged and without reading until the cache is reset
C8_MemoisedLoading == []LoadsOnce /\ [][CacheKept]_vars

\* a render served from the cache although the files on disk have changed
C8_Witness ==
    /\ pc = "tab1"
    /\ Count(reads, DATA_DIR) = 1
    /\ ~NoXlsx
    /\ Count(reads, PathOf(LocatedXlsx)) = 1
    /\ load_environment_data(dir).exc = "none"
    /\ load_environment_data(dir).value # env_data
    /\ LocatedXlsx.ok
    /\ SheetLoop(LocatedXlsx.sheets, <<>>) # growth_data

\* C8 as stated: no loader body runs twice for one argument
C8_ReadAtMostOnce == \A i \in DOMAIN reads : reads[i][2] <= 1

=============================================================================
